---- MODULE Spec2Model ----
(***************************************************************************)
(* Verification model of the data-freshness utilities of the repository:   *)
(*   - promisePool, debounce, throttle, retry (src/src/utils/jsUtils.ts)   *)
(*   - CacheService and cacheWithRevalidation (src/unnamed/part_003)       *)
(*   - products slice, fetchProducts thunk and ProductsListScreen          *)
(*     (src/sample/sample/src/features/products, src/unnamed/part_011)     *)
(*   - usePagination          (src/src/hooks/index.ts)                      *)
(*   - cartSlice (src/unnamed/part_012) and AddToCartUseCase               *)
(*     (src/sample/sample/src/domain/usecases/CartUseCases.ts)             *)
(* Each subsystem has its own specifications (SpecPool; SpecCache,         *)
(* SpecService, SpecFifo; SpecProducts; SpecHook; SpecDebounce,            *)
(* SpecThrottle, SpecRetry; SpecCart, SpecAddToCart); the variables of the *)
(* other subsystems stay at their initial values.                          *)
(***************************************************************************)
EXTENDS Integers, Sequences, FiniteSets, TLC

VARIABLES
  \* ---- promisePool ----
  nTasks,        \* promiseFns.length
  concurrency,   \* the concurrency argument
  poolPc,        \* position of the async function promisePool
  index,         \* loop variable: index of the promise pushed last
  executing,     \* the executing array (promises named by their task index)
  results,       \* the results array (Empty = hole)
  taskState,     \* per task: pending / running / fulfilled / rejected
  started,       \* per task: number of times promiseFn was invoked
  awaited,       \* outcome of the promise promisePool is suspended on
  \* ---- CacheService / cacheWithRevalidation ----
  now,           \* Date.now()
  storage,       \* AsyncStorage: key -> stored string (NoItem = no item)
  writes,        \* per key: number of setItem writes applied so far
  faulty,        \* whether AsyncStorage operations may throw in this run
  calls,         \* per invocation of cacheWithRevalidation: its locals and position
  ordered,       \* whether AsyncStorage applies writes in the order they were issued
  queue,         \* writes issued and not yet applied, oldest first (when ordered)
  svc,           \* the last CacheService method called directly, and its outcome
  \* ---- pagination: products slice + ProductsListScreen, usePagination ----
  server,        \* what the backend holds: the contents of each page
  reqs,          \* per fetch started: its arguments and whether it has settled
  lastOutcome,   \* outcome of the fetch that settled last
  saved,         \* whether page 0 has been saved to device storage
  mounted,       \* "no", "yes" or "gone": the consuming screen
  store,         \* the products slice state
  hook,          \* the state of one usePagination instance
  \* ---- debounce, throttle, retry ----
  clock,         \* the time the timers of debounce and throttle run on
  deb,           \* one function returned by debounce: its closure and its trace
  thr,           \* one function returned by throttle: its closure and its trace
  rty,           \* one call of retry: its options, locals, position and trace
  \* ---- cart: cartSlice, AddToCartUseCase ----
  cart,          \* the cart slice state
  cartItem,      \* the string stored under STORAGE_KEYS.CART (NoCart = none)
  useCases       \* the AddToCartUseCase.execute calls: locals and position

poolVars == <<nTasks, concurrency, poolPc, index, executing, results,
              taskState, started, awaited>>

cacheVars == <<now, storage, writes, faulty, calls, ordered, queue, svc>>

pageVars == <<server, reqs, lastOutcome, saved, mounted, store, hook>>

utilVars == <<clock, deb, thr, rty>>

cartVars == <<cart, cartItem, useCases>>

\* what the steps of one subsystem leave alone
notPool == <<cacheVars, pageVars, utilVars, cartVars>>
notCache == <<poolVars, pageVars, utilVars, cartVars>>
notPage == <<poolVars, cacheVars, utilVars, cartVars>>
notUtil == <<poolVars, cacheVars, pageVars, cartVars>>
notCart == <<poolVars, cacheVars, pageVars, utilVars>>

vars == <<nTasks, concurrency, poolPc, index, executing, results, taskState,
          started, awaited, now, storage, writes, faulty, calls, ordered, queue,
          svc, server, reqs, lastOutcome, saved, mounted, store,
          hook, clock, deb, thr, rty, cart, cartItem, useCases>>

\* ------------------------------------------------------------------ bounds
MaxTasks == 4
MaxLimit == 3
MaxCalls == 2
MaxTime == 2
MaxTtl == 1
MaxOps == 2

\* ------------------------------------------------------------ small helpers
Min2(a, b) == IF a < b THEN a ELSE b
Max2(a, b) == IF a > b THEN a ELSE b
SetMin(S) == CHOOSE x \in S : \A y \in S : x <= y

Empty == "empty"

\* The value task i resolves with (distinct per task, `Result ${id}` in the demo).
TaskValue(i) == "Result" \o ToString(i + 1)

TaskIdx == 0 .. (nTasks - 1)

Settled(ts, i) == ts[i] \in {"fulfilled", "rejected"}

\* ------------------------------------------------------------- promisePool

\* results[index] = result
StoreAtCompletion(res, i, v) ==
  LET free == {k \in DOMAIN res : res[k] = Empty}
  IN  IF free = {} THEN res ELSE [res EXCEPT ![SetMin(free)] = v]

StoreResult(res, i, v) == [res EXCEPT ![i] = v]

\* Promise.race(executing): settles as the first settled member does; among
\* members already settled when race is called, the first in array order.
RaceIgnoringRejections(exec, ts) ==
  IF \E k \in 1 .. Len(exec) : ts[exec[k]] = "fulfilled" THEN "ok" ELSE "none"

RaceOutcome(exec, ts) ==
  LET S == {k \in 1 .. Len(exec) : Settled(ts, exec[k])}
  IN  IF S = {} THEN "none"
      ELSE IF ts[exec[SetMin(S)]] = "fulfilled" THEN "ok" ELSE "err"

\* Promise.all(executing): rejects with the first rejection, fulfils when every
\* member has fulfilled.
AllOutcome(exec, ts) ==
  IF \E k \in 1 .. Len(exec) : ts[exec[k]] = "rejected" THEN "err"
  ELSE IF \A k \in 1 .. Len(exec) : ts[exec[k]] = "fulfilled" THEN "ok"
  ELSE "none"

\* executing.splice(executing.findIndex(p => p === promise), 1)
SpliceCurrent(exec, promise) ==
  LET at == SetMin({k \in 1 .. Len(exec) : exec[k] = promise})
  IN  SubSeq(exec, 1, at - 1) \o SubSeq(exec, at + 1, Len(exec))

\* The synchronous run of the for loop from iteration `from` up to its next
\* await: promises are pushed until executing.length >= concurrency (await
\* Promise.race) or the loop ends (await Promise.all).
RunLoopEarlyRace(exec, from) ==
  LET stop   == from + Max2(0, concurrency - Len(exec) - 2)
      last   == Min2(stop, nTasks - 1)
      pushed == [k \in 1 .. (last - from + 1) |-> from + k - 1]
  IN  [executing |-> exec \o pushed,
       index     |-> last,
       pushed    |-> {pushed[k] : k \in 1 .. Len(pushed)},
       race      |-> stop <= nTasks - 1]

RunLoop(exec, from) ==
  LET stop   == from + Max2(0, concurrency - Len(exec) - 1)
      last   == Min2(stop, nTasks - 1)
      pushed == [k \in 1 .. (last - from + 1) |-> from + k - 1]
  IN  [executing |-> exec \o pushed,
       index     |-> last,
       pushed    |-> {pushed[k] : k \in 1 .. Len(pushed)},
       race      |-> stop <= nTasks - 1]

\* promisePool suspends at its next await; the queued `.then(() => promiseFn())`
\* microtasks of the promises just pushed run first, so those tasks start.
Continue(exec, from) ==
  LET r  == RunLoop(exec, from)
      ts == [i \in TaskIdx |-> IF i \in r.pushed THEN "running" ELSE taskState[i]]
  IN  /\ executing' = r.executing
      /\ index' = r.index
      /\ taskState' = ts
      /\ started' = [i \in TaskIdx |-> IF i \in r.pushed THEN started[i] + 1
                                        ELSE started[i]]
      /\ poolPc' = IF r.race THEN "race" ELSE "all"
      /\ awaited' = IF r.race THEN RaceOutcome(r.executing, ts)
                    ELSE AllOutcome(r.executing, ts)

\* The arguments of one promisePool call, and its locals before it runs.
PoolInit ==
  /\ nTasks \in 0 .. MaxTasks
  /\ concurrency \in 1 .. MaxLimit
  /\ poolPc = "init"
  /\ index = 0
  /\ executing = <<>>
  /\ results = [i \in TaskIdx |-> Empty]
  /\ taskState = [i \in TaskIdx |-> "pending"]
  /\ started = [i \in TaskIdx |-> 0]
  /\ awaited = "none"

\* The call promisePool(promiseFns, concurrency) up to its first await.
CallPool ==
  /\ poolPc = "init"
  /\ Continue(<<>>, 0)
  /\ UNCHANGED <<nTasks, concurrency, results>>

\* Task i settles; on fulfilment its `.then(result => results[index] = result)`
\* runs. The awaited race / all promise takes the outcome it now has.
SettleTaskRetries(i, ok) ==
  /\ taskState[i] = "running"
  /\ taskState' = [taskState EXCEPT ![i] = IF ok THEN "fulfilled" ELSE "running"]
  /\ started' = [started EXCEPT ![i] = IF ok THEN @ ELSE Min2(@ + 1, 2)]
  /\ results' = IF ok THEN StoreResult(results, i, TaskValue(i)) ELSE results
  /\ awaited' = IF awaited # "none" THEN awaited
                ELSE IF poolPc = "race" THEN RaceOutcome(executing, taskState')
                ELSE IF poolPc = "all" THEN AllOutcome(executing, taskState')
                ELSE "none"
  /\ UNCHANGED <<nTasks, concurrency, poolPc, index, executing>>

SettleTask(i, ok) ==
  /\ taskState[i] = "running"
  /\ taskState' = [taskState EXCEPT ![i] = IF ok THEN "fulfilled" ELSE "rejected"]
  /\ results' = IF ok THEN StoreResult(results, i, TaskValue(i)) ELSE results
  /\ awaited' = IF awaited # "none" THEN awaited
                ELSE IF poolPc = "race" THEN RaceOutcome(executing, taskState')
                ELSE IF poolPc = "all" THEN AllOutcome(executing, taskState')
                ELSE "none"
  /\ UNCHANGED <<nTasks, concurrency, poolPc, index, executing, started>>

\* await Promise.race(executing) resumes: the promise pushed last is spliced
\* out and the loop goes on; a rejection is thrown out of promisePool.
ResumeRace ==
  /\ poolPc = "race"
  /\ awaited # "none"
  /\ IF awaited = "ok"
       THEN Continue(SpliceCurrent(executing, index), index + 1)
       ELSE /\ poolPc' = "rejected"
            /\ awaited' = "none"
            /\ UNCHANGED <<index, executing, taskState, started>>
  /\ UNCHANGED <<nTasks, concurrency, results>>

\* await Promise.all(executing) resumes: return results, or throw.
ResumeAll ==
  /\ poolPc = "all"
  /\ awaited # "none"
  /\ poolPc' = IF awaited = "ok" THEN "resolved" ELSE "rejected"
  /\ awaited' = "none"
  /\ UNCHANGED <<nTasks, concurrency, index, executing, results, taskState, started>>

\* No promisePool call is made.
PoolIdle ==
  /\ nTasks = 0
  /\ concurrency = 1
  /\ poolPc = "unused"
  /\ index = 0
  /\ executing = <<>>
  /\ results = <<>>
  /\ taskState = <<>>
  /\ started = <<>>
  /\ awaited = "none"

\* ------------------------------------------------- pagination: the backend
MaxRequests == 5

\* initialState.limit (10 in the source; pages of 2 items here)
Limit == 2

ReqIds == 1 .. MaxRequests

\* Backends: overlapping pages, a page that repeats an id within itself, and
\* disjoint pages. Page p is at index p + 1; later pages are empty.
Servers ==
  { << <<1, 2>>, <<2, 3>>, <<4>> >>,
    << <<1, 1>>, <<2>> >>,
    << <<1, 2>>, <<3, 4>>, <<5>> >> }

PageOf(p) == IF p + 1 \in DOMAIN server THEN server[p + 1] ELSE <<>>

Range(seq) == {seq[k] : k \in DOMAIN seq}

NoDuplicates(seq) == \A i, j \in DOMAIN seq : seq[i] = seq[j] => i = j

NoError == "null"

\* the list state a fetch found when it was dispatched
Before(items, page, hasMore) == [items |-> items, page |-> page, hasMore |-> hasMore]

IdleReq ==
  [state |-> "idle", kind |-> "none", page |-> 0, before |-> Before(<<>>, 0, TRUE),
   doneAt |-> 0]

Issued == Cardinality({r \in ReqIds : reqs[r].state # "idle"})

InFlight == {r \in ReqIds : reqs[r].state = "pending"}

\* the position of the next settlement among the settlements so far
NextDone == Cardinality({r \in ReqIds : reqs[r].state \in {"fulfilled", "rejected"}}) + 1

\* --------------------------------- products slice and ProductsListScreen
InitialState ==
  [items |-> <<>>, loading |-> FALSE, isRefreshing |-> FALSE, error |-> NoError,
   page |-> 0, hasMore |-> TRUE, isFetchingMore |-> FALSE]

\* fetchProducts.pending
Pending(st, argPage) ==
  LET isRefresh == argPage = 0 /\ Len(st.items) > 0
  IN  [st EXCEPT !.isRefreshing = IF isRefresh THEN TRUE ELSE @,
                 !.loading = IF ~isRefresh /\ argPage = 0 THEN TRUE ELSE @,
                 !.isFetchingMore = IF ~isRefresh /\ argPage # 0 THEN TRUE ELSE @,
                 !.error = NoError]

\* [...state.items, ...action.payload.filter(item => !existingIds.has(item.id))]
AppendAll(items, payload) == items \o payload

DedupAppend(items, payload) ==
  LET isNew(x) == x \notin Range(items)
  IN  items \o SelectSeq(payload, isNew)

\* fetchProducts.fulfilled
Fulfilled(st, argPage, payload) ==
  LET isRefresh     == argPage = 0 /\ Len(st.items) > 0
      isInitialLoad == argPage = 0 /\ Len(st.items) = 0
  IN  [st EXCEPT !.loading = FALSE,
                 !.isRefreshing = FALSE,
                 !.isFetchingMore = FALSE,
                 !.error = NoError,
                 !.items = IF isRefresh \/ isInitialLoad THEN payload
                           ELSE DedupAppend(st.items, payload),
                 !.page = IF isRefresh \/ isInitialLoad THEN 1 ELSE argPage + 1,
                 !.hasMore = Len(payload) = Limit]

\* fetchProducts.rejected
Rejected(st, reason) ==
  [st EXCEPT !.loading = FALSE, !.isRefreshing = FALSE, !.isFetchingMore = FALSE,
             !.error = reason]

\* dispatch(fetchProducts({page, limit})): the thunk starts its request and
\* the pending action is reduced at once.
Dispatch(kind, argPage) ==
  LET r == Issued + 1
  IN  /\ r <= MaxRequests
      /\ reqs' = [reqs EXCEPT ![r] =
           [state |-> "pending", kind |-> kind, page |-> argPage,
            before |-> Before(store.items, store.page, store.hasMore),
            doneAt |-> 0]]
      /\ store' = Pending(store, argPage)

\* What the screen shows: the spinner (loading with no items), the error view
\* (error with no items, with its Retry button), or the list.
ShowsList(st) ==
  /\ ~(st.loading /\ Len(st.items) = 0)
  /\ ~(st.error # NoError /\ Len(st.items) = 0)

ShowsRetry(st) == Len(st.items) = 0 /\ ~st.loading

\* The screen mounts; its effect finds items empty and dispatches page 0.
\* (react-redux re-renders the screen on every dispatch, so each handler
\* below runs with the values the store holds.)
MountScreen ==
  /\ mounted = "no"
  /\ mounted' = "yes"
  /\ Dispatch("initial", 0)
  /\ UNCHANGED <<server, lastOutcome, saved, hook>>

\* onEndReached: loadMore
LoadMoreBlocked == store.loading \/ store.isFetchingMore \/ ~store.hasMore

LoadMore ==
  /\ mounted = "yes"
  /\ ShowsList(store)
  /\ ~LoadMoreBlocked
  /\ Dispatch("more", store.page)
  /\ UNCHANGED <<server, lastOutcome, saved, mounted, hook>>

\* pull to refresh: onRefresh
OnRefresh ==
  /\ mounted = "yes"
  /\ ShowsList(store)
  /\ Dispatch("refresh", 0)
  /\ UNCHANGED <<server, lastOutcome, saved, mounted, hook>>

\* the Retry button: handleRetry
HandleRetry ==
  /\ mounted = "yes"
  /\ ShowsRetry(store)
  /\ Dispatch("retry", 0)
  /\ UNCHANGED <<server, lastOutcome, saved, mounted, hook>>

\* The request of fetch r succeeds: page 0 is saved to storage and the thunk
\* fulfils with the page.
RequestOk(r) ==
  /\ reqs[r].state = "pending"
  /\ reqs' = [reqs EXCEPT ![r].state = "fulfilled", ![r].doneAt = NextDone]
  /\ store' = Fulfilled(store, reqs[r].page, PageOf(reqs[r].page))
  /\ saved' = (saved \/ reqs[r].page = 0)
  /\ lastOutcome' = "fulfilled"
  /\ UNCHANGED <<server, mounted, hook>>

\* The request of fetch r fails: for page 0 the thunk falls back to the saved
\* copy and fulfils with it; otherwise it rejects.
RequestFails(r) ==
  /\ reqs[r].state = "pending"
  /\ IF reqs[r].page = 0 /\ saved
       THEN /\ reqs' = [reqs EXCEPT ![r].state = "fulfilled", ![r].doneAt = NextDone]
            /\ store' = Fulfilled(store, 0, PageOf(0))
            /\ lastOutcome' = "fulfilled"
       ELSE /\ reqs' = [reqs EXCEPT ![r].state = "rejected", ![r].doneAt = NextDone]
            /\ store' = Rejected(store, "Failed to fetch products")
            /\ lastOutcome' = "rejected"
  /\ UNCHANGED <<server, saved, mounted, hook>>

\* ------------------------------------------------------- usePagination
HookInitial ==
  [data |-> <<>>, page |-> 1, isLoading |-> FALSE, isRefreshing |-> FALSE,
   hasMore |-> TRUE, error |-> NoError, isLoadingRef |-> FALSE]

\* fetchFn(pageNum) as api.fetchPosts answers: pages are numbered from 1, and
\* hasMore says whether anything lies beyond the page.
ResponseData(pageNum) == PageOf(pageNum - 1)

ResponseHasMore(pageNum) == PageOf(pageNum) # <<>>

\* A state setter of the hook: React drops the update once the component
\* has unmounted.
SetState(h, next) == IF mounted = "gone" THEN h ELSE next

\* loadPage(pageNum, isRefresh) up to `await fetchFn(pageNum)`.
LoadPage(kind, pageNum, isRefresh) ==
  LET r == Issued + 1
  IN  /\ ~hook.isLoadingRef
      /\ r <= MaxRequests
      /\ reqs' = [reqs EXCEPT ![r] =
           [state |-> "pending", kind |-> kind, page |-> pageNum,
            before |-> Before(hook.data, hook.page, hook.hasMore),
            doneAt |-> 0]]
      /\ hook' = [SetState(hook,
                     [hook EXCEPT !.isRefreshing = IF isRefresh THEN TRUE ELSE @,
                                  !.isLoading = IF isRefresh THEN @ ELSE TRUE,
                                  !.error = NoError])
                   EXCEPT !.isLoadingRef = TRUE]

\* The component mounts: useEffect(() => { loadPage(1, false) }, []).
MountHook ==
  /\ mounted = "no"
  /\ mounted' = "yes"
  /\ LoadPage("initial", 1, FALSE)
  /\ UNCHANGED <<server, lastOutcome, saved, store>>

\* loadMore()
HookLoadMore ==
  /\ mounted = "yes"
  /\ ~hook.isLoading
  /\ hook.hasMore
  /\ LoadPage("more", hook.page + 1, FALSE)
  /\ UNCHANGED <<server, lastOutcome, saved, mounted, store>>

\* refresh()
HookRefresh ==
  /\ mounted = "yes"
  /\ LoadPage("refresh", 1, TRUE)
  /\ UNCHANGED <<server, lastOutcome, saved, mounted, store>>

\* The screen is left: the component unmounts.
Unmount ==
  /\ mounted = "yes"
  /\ mounted' = "gone"
  /\ UNCHANGED <<server, reqs, lastOutcome, saved, store, hook>>

\* finally { setIsLoading(false); setIsRefreshing(false);
\*           isLoadingRef.current = false }
Finally(h) ==
  [SetState(h, [h EXCEPT !.isLoading = FALSE, !.isRefreshing = FALSE])
   EXCEPT !.isLoadingRef = FALSE]

\* `await fetchFn(pageNum)` fulfils: the try block, then finally.
HookFetchOk(r) ==
  LET isRefresh == reqs[r].kind = "refresh"
      pageNum   == reqs[r].page
      data      == ResponseData(pageNum)
  IN  /\ reqs[r].state = "pending"
      /\ reqs' = [reqs EXCEPT ![r].state = "fulfilled", ![r].doneAt = NextDone]
      /\ hook' = Finally(SetState(hook,
           [hook EXCEPT !.data = IF isRefresh THEN data ELSE @ \o data,
                        !.hasMore = ResponseHasMore(pageNum),
                        !.page = pageNum]))
      /\ lastOutcome' = "fulfilled"
      /\ UNCHANGED <<server, saved, mounted, store>>

\* `await fetchFn(pageNum)` rejects: the catch block, then finally.
HookFetchFailsKeepsGuard(r) ==
  /\ reqs[r].state = "pending"
  /\ reqs' = [reqs EXCEPT ![r].state = "rejected", ![r].doneAt = NextDone]
  /\ hook' = SetState(hook, [hook EXCEPT !.error = "Failed to fetch posts"])
  /\ lastOutcome' = "rejected"
  /\ UNCHANGED <<server, saved, mounted, store>>

HookFetchFails(r) ==
  /\ reqs[r].state = "pending"
  /\ reqs' = [reqs EXCEPT ![r].state = "rejected", ![r].doneAt = NextDone]
  /\ hook' = Finally(SetState(hook, [hook EXCEPT !.error = "Failed to fetch posts"]))
  /\ lastOutcome' = "rejected"
  /\ UNCHANGED <<server, saved, mounted, store>>

\* No list is on screen.
PageIdle ==
  /\ server = <<>>
  /\ reqs = <<>>
  /\ lastOutcome = "none"
  /\ saved = FALSE
  /\ mounted = "no"
  /\ store = InitialState
  /\ hook = HookInitial

\* The products store before the screen mounts.
ProductsInit ==
  /\ server \in Servers
  /\ reqs = [r \in ReqIds |-> IdleReq]
  /\ lastOutcome = "none"
  /\ saved = FALSE
  /\ mounted = "no"
  /\ store = InitialState
  /\ hook = HookInitial

\* ------------------------------------------------------- timers (shared)
MaxClock == 4
MaxEvents == 3

\* the arguments the returned functions are called with
Args == {"a", "b"}
\* the delay / limit a function is built with
Delays == {1, 2}

\* setTimeout(callback, ms): the callback may run once ms have passed
SetTimeout(timers, id, ms, payload) ==
  timers \cup {[id |-> id, due |-> clock + ms, args |-> payload]}

\* clearTimeout(id)
ClearTimeout(timers, id) == {t \in timers : t.id # id}

\* time passes
ClockTick ==
  /\ clock < MaxClock
  /\ clock' = clock + 1
  /\ UNCHANGED <<deb, thr, rty>>

\* ---------------------------------------------------------------- debounce
\* the closure of debounce(func, delay) before any call: timeoutId = null (0)
NewDebounce(delay) ==
  [delay |-> delay, timeoutId |-> 0, timers |-> {}, nCalls |-> 0, log |-> <<>>]

\* the returned function called with argument a
\* the call forgets to clear the pending timeout
DebouncedCallNoClear(a) ==
  /\ deb.nCalls < MaxEvents
  /\ LET id == deb.nCalls + 1
     IN deb' = [deb EXCEPT
          !.timeoutId = id,
          !.timers = SetTimeout(deb.timers, id, deb.delay, a),
          !.nCalls = id,
          !.log = Append(@, [kind |-> "call", at |-> clock, arg |-> a, by |-> id])]
  /\ UNCHANGED <<clock, thr, rty>>

DebouncedCall(a) ==
  /\ deb.nCalls < MaxEvents
  /\ LET id == deb.nCalls + 1
         cleared == IF deb.timeoutId # 0
                    THEN ClearTimeout(deb.timers, deb.timeoutId)
                    ELSE deb.timers
     IN deb' = [deb EXCEPT
          !.timeoutId = id,
          !.timers = SetTimeout(cleared, id, deb.delay, a),
          !.nCalls = id,
          !.log = Append(@, [kind |-> "call", at |-> clock, arg |-> a, by |-> id])]
  /\ UNCHANGED <<clock, thr, rty>>

\* the timeout callback: func.apply(context, args)
DebounceTimer ==
  /\ \E t \in {u \in deb.timers : clock >= u.due} :
       deb' = [deb EXCEPT
         !.timers = @ \ {t},
         !.log = Append(@, [kind |-> "exec", at |-> clock, arg |-> t.args, by |-> t.id])]
  /\ UNCHANGED <<clock, thr, rty>>

\* ---------------------------------------------------------------- throttle
\* the closure of throttle(func, limit) before any call
NewThrottle(limit) ==
  [limit |-> limit, inThrottle |-> FALSE, lastResult |-> "undefined",
   timers |-> {}, nCalls |-> 0, log |-> <<>>]

\* the returned function called with argument a; ok: func returns (its
\* argument, as its result), ~ok: func throws
ThrottledCall(a, ok) ==
  /\ thr.nCalls < MaxEvents
  /\ LET id == thr.nCalls + 1
         call == [kind |-> "call", at |-> clock, arg |-> a, by |-> id, threw |-> FALSE]
         exec == [kind |-> "exec", at |-> clock, arg |-> a, by |-> id, threw |-> ~ok]
     IN IF ~thr.inThrottle
        THEN IF ok
             THEN thr' = [thr EXCEPT
                    !.lastResult = a,
                    !.inThrottle = TRUE,
                    !.timers = SetTimeout(thr.timers, id, thr.limit, a),
                    !.nCalls = id,
                    !.log = @ \o <<call, exec>>]
             ELSE thr' = [thr EXCEPT !.nCalls = id, !.log = @ \o <<call, exec>>]
        ELSE /\ ok
             /\ thr' = [thr EXCEPT !.nCalls = id, !.log = Append(@, call)]
  /\ UNCHANGED <<clock, deb, rty>>

\* the timeout callback: inThrottle = false
ThrottleTimer ==
  /\ \E t \in {u \in thr.timers : clock >= u.due} :
       thr' = [thr EXCEPT !.timers = @ \ {t}, !.inThrottle = FALSE]
  /\ UNCHANGED <<clock, deb, rty>>

\* ------------------------------------------------------------------- retry
MaxRetries == 3
DefaultMaxDelay == 30000

RECURSIVE Pow(_, _)
Pow(b, n) == IF n = 0 THEN 1 ELSE b * Pow(b, n - 1)

NoErr == [none |-> TRUE]
\* the error thrown by attempt k
ErrorOf(k) == [attempt |-> k]

\* Math.min(baseDelay * Math.pow(2, attempt), maxDelay)
\* the delay grows linearly
BackoffLinear(baseDelay, attempt, maxDelay) ==
  Min2(baseDelay * (attempt + 1), maxDelay)

Backoff(baseDelay, attempt, maxDelay) ==
  Min2(baseDelay * Pow(2, attempt), maxDelay)

NewRetry(maxRetries, baseDelay, maxDelay) ==
  [maxRetries |-> maxRetries, baseDelay |-> baseDelay, maxDelay |-> maxDelay,
   pc |-> "idle", attempt |-> 0, lastError |-> NoErr, invoked |-> 0,
   waits |-> <<>>, failed |-> <<>>, succeeded |-> 0, thrown |-> NoErr]

\* retry(fn, options) is called: the loop starts and awaits fn()
CallRetry ==
  /\ rty.pc = "idle"
  /\ rty' = [rty EXCEPT !.pc = "calling", !.attempt = 0, !.invoked = @ + 1]
  /\ UNCHANGED <<clock, deb, thr>>

\* the awaited fn() fulfils: return its value
FnResolves ==
  /\ rty.pc = "calling"
  /\ rty' = [rty EXCEPT !.pc = "resolved", !.succeeded = rty.attempt + 1]
  /\ UNCHANGED <<clock, deb, thr>>

\* the awaited fn() rejects: the catch block, then either the wait or the
\* end of the loop and throw lastError
FnRejects ==
  /\ rty.pc = "calling"
  /\ IF rty.attempt < rty.maxRetries
     THEN rty' = [rty EXCEPT
            !.lastError = ErrorOf(rty.attempt),
            !.failed = Append(@, rty.attempt),
            !.waits = Append(@, Backoff(rty.baseDelay, rty.attempt, rty.maxDelay)),
            !.pc = "waiting"]
     ELSE rty' = [rty EXCEPT
            !.lastError = ErrorOf(rty.attempt),
            !.failed = Append(@, rty.attempt),
            !.attempt = @ + 1,
            !.thrown = ErrorOf(rty.attempt),
            !.pc = "rejected"]
  /\ UNCHANGED <<clock, deb, thr>>

\* the wait is over: the next iteration awaits fn()
RetryWake ==
  /\ rty.pc = "waiting"
  /\ rty' = [rty EXCEPT !.attempt = @ + 1, !.invoked = @ + 1, !.pc = "calling"]
  /\ UNCHANGED <<clock, deb, thr>>

UtilIdle ==
  /\ clock = 0
  /\ deb = NewDebounce(1)
  /\ thr = NewThrottle(1)
  /\ rty = NewRetry(0, 1000, DefaultMaxDelay)

\* --------------------------------------------------------------- cartSlice
MaxQuantity == 3
MaxAdders == 3

\* the products of the catalogue, named by product.id, and product.price
ProductIds == {1, 2, 3}
Price(id) == 2 * id + 1

\* items.reduce((sum, item) => sum + item.quantity, 0)
RECURSIVE TotalItems(_)
TotalItems(items) ==
  IF items = <<>> THEN 0
  ELSE TotalItems(SubSeq(items, 1, Len(items) - 1)) + items[Len(items)].quantity

\* items.reduce((sum, item) => sum + item.product.price * item.quantity, 0)
RECURSIVE TotalPrice(_)
TotalPrice(items) ==
  IF items = <<>> THEN 0
  ELSE TotalPrice(SubSeq(items, 1, Len(items) - 1))
         + Price(items[Len(items)].id) * items[Len(items)].quantity

\* items.find((item) => item.product.id === id): its position, 0 when absent
Find(items, id) ==
  IF \E k \in 1..Len(items) : items[k].id = id
  THEN SetMin({k \in 1..Len(items) : items[k].id = id})
  ELSE 0

\* items.filter((item) => item.product.id !== id)
Without(items, id) == SelectSeq(items, LAMBDA item : item.id # id)

\* the "Recalculate totals" lines of a reducer
Recalculate(items) ==
  [items |-> items, totalItems |-> TotalItems(items), totalPrice |-> TotalPrice(items)]

\* initialState
EmptyCart == [items |-> <<>>, totalItems |-> 0, totalPrice |-> 0]

\* reducer addToCart(product)
AddToCart(id) ==
  /\ LET k == Find(cart.items, id)
     IN IF k # 0
        THEN /\ cart.items[k].quantity < MaxQuantity
             /\ cart' = Recalculate([cart.items EXCEPT ![k].quantity = @ + 1])
        ELSE cart' = Recalculate(Append(cart.items, [id |-> id, quantity |-> 1]))
  /\ UNCHANGED <<cartItem, useCases>>

\* reducer removeFromCart(productId)
RemoveFromCart(id) ==
  /\ cart' = Recalculate(Without(cart.items, id))
  /\ UNCHANGED <<cartItem, useCases>>

\* reducer updateQuantity({productId, quantity})
\* the line is kept whatever the quantity
UpdateQuantityKeepsLine(id, quantity) ==
  /\ LET k == Find(cart.items, id)
     IN IF k # 0
        THEN cart' = Recalculate([cart.items EXCEPT ![k].quantity = quantity])
        ELSE cart' = Recalculate(cart.items)
  /\ UNCHANGED <<cartItem, useCases>>

UpdateQuantity(id, quantity) ==
  /\ LET k == Find(cart.items, id)
     IN IF k # 0
        THEN IF quantity <= 0
             THEN cart' = Recalculate(Without(cart.items, id))
             ELSE cart' = Recalculate([cart.items EXCEPT ![k].quantity = quantity])
        ELSE cart' = Recalculate(cart.items)
  /\ UNCHANGED <<cartItem, useCases>>

\* reducer clearCart
ClearCart ==
  /\ cart' = [items |-> <<>>, totalItems |-> 0, totalPrice |-> 0]
  /\ UNCHANGED <<cartItem, useCases>>

\* -------------------------------------- AddToCartUseCase, CartRepository
NoCart == <<>>

\* JSON.stringify(items) / JSON.parse(data) of a CartItem[]: the stored string
\* is the number of lines followed by each line's product id and quantity
StringifyItems(items) ==
  [k \in 1..(2 * Len(items) + 1) |->
     IF k = 1 THEN Len(items)
     ELSE IF k % 2 = 0 THEN items[k \div 2].id ELSE items[k \div 2].quantity]

ParseItems(str) ==
  [k \in 1..str[1] |-> [id |-> str[2 * k], quantity |-> str[2 * k + 1]]]

\* CartRepository.getCartItems: storageService.get(...) || []
GetCartItems == IF cartItem = NoCart THEN <<>> ELSE ParseItems(cartItem)

\* the product every execute call is made with
AddedProduct == 1

Adders == 1..MaxAdders

IdleUseCase == [pc |-> "idle", updatedItems |-> <<>>]

\* execute(product) lines 17-30: updatedItems computed from the items read
UpdatedItems(items, id) ==
  IF Find(items, id) # 0
  THEN [k \in 1..Len(items) |->
          IF items[k].id = id
          THEN [items[k] EXCEPT !.quantity = @ + 1]
          ELSE items[k]]
  ELSE Append(items, [id |-> id, quantity |-> 1])

\* execute(product) is called: getCartItems is awaited
Execute(c) ==
  /\ useCases.calls[c].pc = "idle"
  /\ useCases' = [useCases EXCEPT !.calls[c].pc = "reading"]
  /\ UNCHANGED <<cart, cartItem>>

\* the read resolves: updatedItems is computed, saveCartItems is awaited
GetCartItemsDone(c) ==
  /\ useCases.calls[c].pc = "reading"
  /\ useCases' = [useCases EXCEPT
       !.calls[c].pc = "writing",
       !.calls[c].updatedItems = UpdatedItems(GetCartItems, AddedProduct)]
  /\ UNCHANGED <<cart, cartItem>>

\* the write is applied and execute returns
SaveCartItemsDone(c) ==
  /\ useCases.calls[c].pc = "writing"
  /\ cartItem' = StringifyItems(useCases.calls[c].updatedItems)
  /\ useCases' = [useCases EXCEPT !.calls[c].pc = "done"]
  /\ UNCHANGED cart

\* the carts found in storage when the calls begin
StoredCarts ==
  {NoCart} \cup {StringifyItems(items) : items \in
     {<<>>, <<[id |-> 1, quantity |-> 1]>>, <<[id |-> 2, quantity |-> 2]>>,
      <<[id |-> 2, quantity |-> 1], [id |-> 1, quantity |-> 2]>>}}

\* the quantity of product id in the stored cart
StoredQuantity(str, id) ==
  LET items == IF str = NoCart THEN <<>> ELSE ParseItems(str)
  IN IF Find(items, id) = 0 THEN 0 ELSE items[Find(items, id)].quantity

CartIdle ==
  /\ cart = EmptyCart
  /\ cartItem = NoCart
  /\ useCases = [base |-> 0, calls |-> [c \in Adders |-> IdleUseCase]]

\* ------------------------------------- CacheService, cacheWithRevalidation
Keys == {"posts-page-1"}

\* What the fetchFn invoked by call c resolves with when it fulfils (a value of
\* its own per invocation, so fresh data is told apart from cached data).
FetchedData(c) == "v" \o ToString(c)
Ttls == 0 .. MaxTtl
CallIds == 1 .. MaxCalls

\* null (no entry / no result yet), a missing AsyncStorage item, unset locals
Null == [null |-> TRUE]
NoItem == <<>>
NoData == "undefined"
NoKey == "undefined"

\* JSON.stringify(entry) / JSON.parse(cachedValue): the stored string is the
\* serialised field list, parsed back into a CacheEntry.
Stringify(entry) == <<"data", entry.data, "timestamp", entry.timestamp, "stale", entry.stale>>

Parse(str) == [data |-> str[2], timestamp |-> str[4], stale |-> str[6]]

\* A stored string that is not JSON (JSON.parse throws a SyntaxError on it).
Corrupt == <<"{">>

Parseable(str) == Len(str) = 6

\* The promise of a CacheService method whose body is wrapped in
\* try { ... } catch (error) { console.error(...) }: it never rejects.
Rethrow(ok) == IF ok THEN "resolved" ELSE "rejected"

CatchAll(ok) == "resolved"

\* CacheService.get: null when the read throws, there is no item, or
\* JSON.parse throws.
CacheGet(key, ok) ==
  IF ~ok THEN Null
  ELSE IF storage[key] = NoItem THEN Null
  ELSE IF ~Parseable(storage[key]) THEN Null
  ELSE Parse(storage[key])

\* Why cache.get returned null although an item may be there.
ReadFault(key, ok) ==
  IF ~ok THEN "io"
  ELSE IF storage[key] # NoItem /\ ~Parseable(storage[key]) THEN "parse"
  ELSE "none"

\* CacheService.set builds the entry with the current timestamp.
NewEntryNoClock(data) == [data |-> data, timestamp |-> 0, stale |-> FALSE]

NewEntry(data) == [data |-> data, timestamp |-> now, stale |-> FALSE]

\* AsyncStorage.setItem applied (ok) or throwing (~ok, caught and logged).
SetItemDropped(key, entry, ok) == storage

SetItem(key, entry, ok) ==
  IF ok THEN [storage EXCEPT ![key] = Stringify(entry)] ELSE storage

\* CacheService.isStale
IsStaleInclusive(entry, ttl) == now - entry.timestamp >= ttl

IsStale(entry, ttl) == now - entry.timestamp > ttl

\* The values cacheWithRevalidation returns.
StaleResultWrongFlag(cached) == [data |-> cached.data, isStale |-> FALSE]

StaleResult(cached) == [data |-> cached.data, isStale |-> TRUE]

CachedResult(cached) == [data |-> cached.data, isStale |-> FALSE]

FreshResult(data) == [data |-> data, isStale |-> FALSE]

IdleCall ==
  [pc |-> "idle", key |-> NoKey, ttl |-> 0, swr |-> FALSE, cached |-> Null,
   isStale |-> FALSE, readVersion |-> 0, ret |-> Null, bg |-> "none",
   fetchCalls |-> 0, data |-> NoData, entry |-> Null, wrote |-> "none",
   afterFailed |-> {}, readFault |-> "none"]

\* No CacheService method has been called directly.
IdleSvc ==
  [seq |-> 0, op |-> "none", key |-> NoKey, data |-> NoData, ttl |-> 0,
   ok |-> TRUE, outcome |-> "none", result |-> Null, stale |-> FALSE,
   at |-> 0, version |-> 0]

\* AsyncStorage persists across runs: a key starts with no item or with an
\* entry written earlier.
CacheInit ==
  /\ now = 0
  /\ faulty = FALSE
  /\ storage \in [Keys -> {NoItem, Stringify([data |-> "v0", timestamp |-> 0, stale |-> FALSE])}]
  /\ writes = [k \in Keys |-> 0]
  /\ calls = [c \in CallIds |-> IdleCall]
  /\ ordered = FALSE
  /\ queue = <<>>
  /\ svc = IdleSvc

\* No cache call is made.
CacheIdle ==
  /\ now = 0
  /\ faulty = FALSE
  /\ storage = [k \in Keys |-> NoItem]
  /\ writes = [k \in Keys |-> 0]
  /\ calls = <<>>
  /\ ordered = FALSE
  /\ queue = <<>>
  /\ svc = IdleSvc

\* Date.now() advances.
Tick ==
  /\ now < MaxTime
  /\ now' = now + 1
  /\ UNCHANGED <<storage, writes, faulty, calls, ordered, queue, svc>>

\* cacheWithRevalidation(key, fetchFn, {ttl, staleWhileRevalidate}) is
\* called: it suspends on `await cache.get(key)`.
Invoke(c, key, ttl, swr) ==
  /\ calls[c].pc = "idle"
  /\ c > 1 => calls[c - 1].pc # "idle"
  /\ calls' = [calls EXCEPT ![c] =
       [@ EXCEPT !.pc = "get", !.key = key, !.ttl = ttl, !.swr = swr,
                 !.afterFailed = {d \in CallIds : calls[d].bg = "failed"
                                                  /\ calls[d].key = key}]]
  /\ UNCHANGED <<now, storage, writes, faulty, ordered, queue, svc>>

\* cache.get settles and the function runs on to its next await or return.
GetDone(c, ok) ==
  LET me     == calls[c]
      cached == CacheGet(me.key, ok)
      read   == [me EXCEPT !.cached = cached,
                           !.readVersion = writes[me.key],
                           !.readFault = ReadFault(me.key, ok),
                           !.isStale = cached # Null /\ IsStale(cached, me.ttl)]
  IN  /\ me.pc = "get"
      /\ calls' = [calls EXCEPT ![c] =
           IF cached = Null
             THEN \* no cache: const data = await fetchFn()
                  [read EXCEPT !.pc = "fetch", !.fetchCalls = @ + 1]
           ELSE IF read.isStale /\ me.swr
             THEN \* return stale data, fetchFn() in the background
                  [read EXCEPT !.pc = "returned", !.ret = StaleResult(cached),
                               !.fetchCalls = @ + 1, !.bg = "fetching"]
           ELSE IF ~read.isStale
             THEN [read EXCEPT !.pc = "returned", !.ret = CachedResult(cached)]
           ELSE \* stale and no SWR: const freshData = await fetchFn()
                [read EXCEPT !.pc = "fetch", !.fetchCalls = @ + 1]]
      /\ UNCHANGED <<now, storage, writes, faulty, ordered, queue, svc>>

\* AsyncStorage.setItem is handed to the native module: when the module is
\* serial (ordered) the writes are applied oldest first.
Issue(c) == IF ordered THEN Append(queue, c) ELSE queue

AnyOrder(c) == TRUE

IsNext(c) == ordered => (queue # <<>> /\ Head(queue) = c)

Retire == IF ordered THEN Tail(queue) ELSE queue

\* The awaited fetchFn() fulfils with data: cache.set(key, data, ttl) is
\* called (the entry takes the current timestamp) and awaited.
FetchResolve(c, data) ==
  /\ calls[c].pc = "fetch"
  /\ calls' = [calls EXCEPT ![c] =
       [@ EXCEPT !.pc = "set", !.data = data, !.entry = NewEntry(data)]]
  /\ queue' = Issue(c)
  /\ UNCHANGED <<now, storage, writes, faulty, ordered, svc>>

\* The awaited fetchFn() rejects: the rejection leaves cacheWithRevalidation.
FetchReject(c) ==
  /\ calls[c].pc = "fetch"
  /\ calls' = [calls EXCEPT ![c] = [@ EXCEPT !.pc = "rejected"]]
  /\ UNCHANGED <<now, storage, writes, faulty, ordered, queue, svc>>

\* cache.set settles (the write applied, or its error caught and logged) and
\* the function returns the fetched data.
SetDone(c, ok) ==
  LET me == calls[c]
  IN  /\ me.pc = "set"
      /\ IsNext(c)
      /\ queue' = Retire
      /\ storage' = SetItem(me.key, me.entry, ok)
      /\ writes' = IF ok THEN [writes EXCEPT ![me.key] = @ + 1] ELSE writes
      /\ calls' = [calls EXCEPT ![c] =
           IF CatchAll(ok) = "resolved"
             THEN [@ EXCEPT !.pc = "returned", !.ret = FreshResult(me.data),
                            !.wrote = IF ok THEN "ok" ELSE "failed"]
             ELSE [@ EXCEPT !.pc = "rejected", !.wrote = "failed"]]
      /\ UNCHANGED <<now, faulty, ordered, svc>>

\* The background fetchFn() fulfils: `.then(freshData => cache.set(...))`.
BgFetchResolve(c, data) ==
  /\ calls[c].bg = "fetching"
  /\ calls' = [calls EXCEPT ![c] =
       [@ EXCEPT !.bg = "setting", !.data = data, !.entry = NewEntry(data)]]
  /\ queue' = Issue(c)
  /\ UNCHANGED <<now, storage, writes, faulty, ordered, svc>>

\* The background fetchFn() rejects: `.catch(err => console.error(...))`.
BgFetchRejectPropagates(c) ==
  /\ calls[c].bg = "fetching"
  /\ calls' = [calls EXCEPT ![c] = [@ EXCEPT !.bg = "failed", !.pc = "rejected"]]
  /\ UNCHANGED <<now, storage, writes, faulty, ordered, queue, svc>>

BgFetchReject(c) ==
  /\ calls[c].bg = "fetching"
  /\ calls' = [calls EXCEPT ![c] =
       [@ EXCEPT !.bg = "failed"]]
  /\ UNCHANGED <<now, storage, writes, faulty, ordered, queue, svc>>

\* The background cache.set settles.
BgSetDone(c, ok) ==
  LET me == calls[c]
  IN  /\ me.bg = "setting"
      /\ IsNext(c)
      /\ queue' = Retire
      /\ storage' = SetItem(me.key, me.entry, ok)
      /\ writes' = IF ok THEN [writes EXCEPT ![me.key] = @ + 1] ELSE writes
      /\ calls' = [calls EXCEPT ![c] =
           [@ EXCEPT !.bg = "done",
                     !.wrote = IF ok THEN "ok" ELSE "failed"]]
      /\ UNCHANGED <<now, faulty, ordered, svc>>

\* An AsyncStorage operation succeeds (TRUE) or, in a faulty run, may throw.
StorageOutcomes == IF faulty THEN BOOLEAN ELSE {TRUE}

InitCache == CacheInit /\ PoolIdle /\ PageIdle /\ UtilIdle /\ CartIdle

NextCache ==
  \/ Tick /\ UNCHANGED notCache
  \/ \E c \in CallIds, key \in Keys, ttl \in Ttls, swr \in BOOLEAN :
       Invoke(c, key, ttl, swr) /\ UNCHANGED notCache
  \/ \E c \in CallIds, ok \in StorageOutcomes : GetDone(c, ok) /\ UNCHANGED notCache
  \/ \E c \in CallIds : FetchResolve(c, FetchedData(c)) /\ UNCHANGED notCache
  \/ \E c \in CallIds : FetchReject(c) /\ UNCHANGED notCache
  \/ \E c \in CallIds, ok \in StorageOutcomes : SetDone(c, ok) /\ UNCHANGED notCache
  \/ \E c \in CallIds : BgFetchResolve(c, FetchedData(c)) /\ UNCHANGED notCache
  \/ \E c \in CallIds : BgFetchReject(c) /\ UNCHANGED notCache
  \/ \E c \in CallIds, ok \in StorageOutcomes : BgSetDone(c, ok) /\ UNCHANGED notCache

SpecCache == InitCache /\ [][NextCache]_vars

\* ------------------------------------ CacheService methods called directly
\* The value a direct cache.set stores (told apart from fetched data).
SetData == "x1"

SvcRecord(op, key, ok) ==
  [IdleSvc EXCEPT !.seq = svc.seq + 1, !.op = op, !.key = key, !.ok = ok,
                  !.at = now]

\* entry = await cache.get(key), then cache.isStale(entry, ttl) on a hit.
ServiceGet(key, ttl, ok) ==
  LET entry == CacheGet(key, ok)
  IN  /\ svc.seq < MaxOps
      /\ svc' = [SvcRecord("get", key, ok) EXCEPT
                   !.ttl = ttl, !.result = entry,
                   !.stale = entry # Null /\ IsStale(entry, ttl),
                   !.outcome = CatchAll(ok), !.version = writes[key]]
      /\ UNCHANGED <<now, storage, writes, faulty, calls, ordered, queue>>

\* await cache.set(key, data)
ServiceSet(key, data, ok) ==
  /\ svc.seq < MaxOps
  /\ storage' = SetItem(key, NewEntry(data), ok)
  /\ writes' = IF ok THEN [writes EXCEPT ![key] = @ + 1] ELSE writes
  /\ svc' = [SvcRecord("set", key, ok) EXCEPT
               !.data = data, !.outcome = CatchAll(ok), !.version = writes'[key]]
  /\ UNCHANGED <<now, faulty, calls, ordered, queue>>

\* await cache.remove(key)
ServiceRemove(key, ok) ==
  /\ svc.seq < MaxOps
  /\ storage' = IF ok THEN [storage EXCEPT ![key] = NoItem] ELSE storage
  /\ writes' = IF ok THEN [writes EXCEPT ![key] = @ + 1] ELSE writes
  /\ svc' = [SvcRecord("remove", key, ok) EXCEPT
               !.outcome = CatchAll(ok), !.version = writes'[key]]
  /\ UNCHANGED <<now, faulty, calls, ordered, queue>>

\* await cache.clear(): every key with the cache prefix is removed.
ServiceClear(ok) ==
  /\ svc.seq < MaxOps
  /\ storage' = IF ok THEN [k \in Keys |-> NoItem] ELSE storage
  /\ writes' = IF ok THEN [k \in Keys |-> writes[k] + 1] ELSE writes
  /\ svc' = [SvcRecord("clear", NoKey, ok) EXCEPT !.outcome = CatchAll(ok)]
  /\ UNCHANGED <<now, faulty, calls, ordered, queue>>

\* In a faulty run one cacheWithRevalidation call is followed.
FaultyCallIds == {1}

\* A run in which AsyncStorage may throw and may hold an item that is not
\* JSON; the service methods are called directly while cacheWithRevalidation
\* calls are under way.
ServiceInit ==
  /\ now = 0
  /\ faulty = TRUE
  /\ storage \in [Keys -> {NoItem, Corrupt,
                            Stringify([data |-> "v0", timestamp |-> 0, stale |-> FALSE])}]
  /\ writes = [k \in Keys |-> 0]
  /\ calls = [c \in CallIds |-> IdleCall]
  /\ ordered = FALSE
  /\ queue = <<>>
  /\ svc = IdleSvc

InitService == ServiceInit /\ PoolIdle /\ PageIdle /\ UtilIdle /\ CartIdle

NextService ==
  \/ Tick /\ UNCHANGED notCache
  \/ \E c \in FaultyCallIds, key \in Keys, ttl \in Ttls, swr \in BOOLEAN :
       Invoke(c, key, ttl, swr) /\ UNCHANGED notCache
  \/ \E c \in FaultyCallIds, ok \in StorageOutcomes : GetDone(c, ok) /\ UNCHANGED notCache
  \/ \E c \in FaultyCallIds : FetchResolve(c, FetchedData(c)) /\ UNCHANGED notCache
  \/ \E c \in FaultyCallIds : FetchReject(c) /\ UNCHANGED notCache
  \/ \E c \in FaultyCallIds, ok \in StorageOutcomes : SetDone(c, ok) /\ UNCHANGED notCache
  \/ \E c \in FaultyCallIds : BgFetchResolve(c, FetchedData(c)) /\ UNCHANGED notCache
  \/ \E c \in FaultyCallIds : BgFetchReject(c) /\ UNCHANGED notCache
  \/ \E c \in FaultyCallIds, ok \in StorageOutcomes : BgSetDone(c, ok) /\ UNCHANGED notCache
  \/ \E key \in Keys, ttl \in Ttls, ok \in StorageOutcomes :
       ServiceGet(key, ttl, ok) /\ UNCHANGED notCache
  \/ \E key \in Keys, ok \in StorageOutcomes :
       ServiceSet(key, SetData, ok) /\ UNCHANGED notCache
  \/ \E key \in Keys, ok \in StorageOutcomes : ServiceRemove(key, ok) /\ UNCHANGED notCache
  \/ \E ok \in StorageOutcomes : ServiceClear(ok) /\ UNCHANGED notCache

SpecService == InitService /\ [][NextService]_vars

\* A run in which AsyncStorage applies writes in the order they were issued
\* (its native module works through one serial queue).
InitFifo ==
  /\ PoolIdle
  /\ PageIdle
  /\ UtilIdle /\ CartIdle
  /\ now = 0
  /\ faulty = FALSE
  /\ storage \in [Keys -> {NoItem, Stringify([data |-> "v0", timestamp |-> 0, stale |-> FALSE])}]
  /\ writes = [k \in Keys |-> 0]
  /\ calls = [c \in CallIds |-> IdleCall]
  /\ ordered = TRUE
  /\ queue = <<>>
  /\ svc = IdleSvc

SpecFifo == InitFifo /\ [][NextCache]_vars

\* One usePagination instance in a screen that may be left while loading.
InitHook == ProductsInit /\ PoolIdle /\ CacheIdle /\ UtilIdle /\ CartIdle

NextHook ==
  \/ MountHook /\ UNCHANGED notPage
  \/ HookLoadMore /\ UNCHANGED notPage
  \/ HookRefresh /\ UNCHANGED notPage
  \/ Unmount /\ UNCHANGED notPage
  \/ \E r \in ReqIds : HookFetchOk(r) /\ UNCHANGED notPage
  \/ \E r \in ReqIds : HookFetchFails(r) /\ UNCHANGED notPage

SpecHook == InitHook /\ [][NextHook]_vars

\* The products list screen over the products slice.
InitProducts == ProductsInit /\ PoolIdle /\ CacheIdle /\ UtilIdle /\ CartIdle

NextProducts ==
  \/ MountScreen /\ UNCHANGED notPage
  \/ LoadMore /\ UNCHANGED notPage
  \/ OnRefresh /\ UNCHANGED notPage
  \/ HandleRetry /\ UNCHANGED notPage
  \/ \E r \in ReqIds : RequestOk(r) /\ UNCHANGED notPage
  \/ \E r \in ReqIds : RequestFails(r) /\ UNCHANGED notPage

SpecProducts == InitProducts /\ [][NextProducts]_vars

\* -------------------------------------------------------- specifications
InitPool == PoolInit /\ CacheIdle /\ PageIdle /\ UtilIdle /\ CartIdle

NextPool ==
  \/ CallPool /\ UNCHANGED notPool
  \/ \E i \in TaskIdx, ok \in BOOLEAN : SettleTask(i, ok) /\ UNCHANGED notPool
  \/ ResumeRace /\ UNCHANGED notPool
  \/ ResumeAll /\ UNCHANGED notPool

SpecPool == InitPool /\ [][NextPool]_vars

\* The event loop runs every continuation that is ready, and every started
\* task is assumed to settle.
FairSpecPool ==
  /\ SpecPool
  /\ WF_vars(CallPool /\ UNCHANGED notPool)
  /\ WF_vars(ResumeRace /\ UNCHANGED notPool)
  /\ WF_vars(ResumeAll /\ UNCHANGED notPool)
  /\ \A i \in 0 .. MaxTasks :
       WF_vars(/\ i \in TaskIdx
               /\ \E ok \in BOOLEAN : SettleTask(i, ok)
               /\ UNCHANGED notPool)


\* One debounced function, called at arbitrary times.
InitDebounce ==
  /\ PoolIdle /\ CacheIdle /\ PageIdle /\ CartIdle
  /\ clock = 0
  /\ deb \in {NewDebounce(d) : d \in Delays}
  /\ thr = NewThrottle(1)
  /\ rty = NewRetry(0, 1000, DefaultMaxDelay)

NextDebounce ==
  \/ (\E a \in Args : DebouncedCall(a)) /\ UNCHANGED notUtil
  \/ DebounceTimer /\ UNCHANGED notUtil
  \/ ClockTick /\ UNCHANGED notUtil

SpecDebounce == InitDebounce /\ [][NextDebounce]_vars

\* One throttled function, called at arbitrary times.
InitThrottle ==
  /\ PoolIdle /\ CacheIdle /\ PageIdle /\ CartIdle
  /\ clock = 0
  /\ deb = NewDebounce(1)
  /\ thr \in {NewThrottle(l) : l \in Delays}
  /\ rty = NewRetry(0, 1000, DefaultMaxDelay)

NextThrottle ==
  \/ (\E a \in Args, ok \in BOOLEAN : ThrottledCall(a, ok)) /\ UNCHANGED notUtil
  \/ ThrottleTimer /\ UNCHANGED notUtil
  \/ ClockTick /\ UNCHANGED notUtil

SpecThrottle == InitThrottle /\ [][NextThrottle]_vars

\* One call of retry.
InitRetry ==
  /\ PoolIdle /\ CacheIdle /\ PageIdle /\ CartIdle
  /\ clock = 0
  /\ deb = NewDebounce(1)
  /\ thr = NewThrottle(1)
  /\ rty \in {NewRetry(m, b, d) : m \in 0..MaxRetries, b \in {500, 1000},
                                   d \in {3000, DefaultMaxDelay}}

NextRetry ==
  \/ CallRetry /\ UNCHANGED notUtil
  \/ FnResolves /\ UNCHANGED notUtil
  \/ FnRejects /\ UNCHANGED notUtil
  \/ RetryWake /\ UNCHANGED notUtil

SpecRetry == InitRetry /\ [][NextRetry]_vars


\* The cart slice under any sequence of its actions.
InitCart ==
  /\ PoolIdle /\ CacheIdle /\ PageIdle /\ UtilIdle
  /\ CartIdle

NextCart ==
  \/ (\E id \in ProductIds : AddToCart(id)) /\ UNCHANGED notCart
  \/ (\E id \in ProductIds : RemoveFromCart(id)) /\ UNCHANGED notCart
  \/ (\E id \in ProductIds, q \in (0 - 1)..MaxQuantity : UpdateQuantity(id, q)) /\ UNCHANGED notCart
  \/ ClearCart /\ UNCHANGED notCart

SpecCart == InitCart /\ [][NextCart]_vars

\* Several AddToCartUseCase.execute calls for one product, none awaited by
\* the caller before the next is made.
InitAddToCart ==
  /\ PoolIdle /\ CacheIdle /\ PageIdle /\ UtilIdle
  /\ cart = EmptyCart
  /\ cartItem \in StoredCarts
  /\ useCases = [base |-> StoredQuantity(cartItem, AddedProduct),
                 calls |-> [c \in Adders |-> IdleUseCase]]

NextAddToCart ==
  \/ (\E c \in Adders : Execute(c)) /\ UNCHANGED notCart
  \/ (\E c \in Adders : GetCartItemsDone(c)) /\ UNCHANGED notCart
  \/ (\E c \in Adders : SaveCartItemsDone(c)) /\ UNCHANGED notCart

SpecAddToCart == InitAddToCart /\ [][NextAddToCart]_vars

\* ------------------------------------------------------ promisePool claims
Running == {i \in TaskIdx : taskState[i] = "running"}

\* C2: for 1 <= concurrency <= N, at no instant are more than `concurrency`
\* tasks started but not yet settled.
C2_ConcurrencyBound ==
  (1 <= concurrency /\ concurrency <= nTasks) => Cardinality(Running) <= concurrency

\* C3: promisePool resolves only after every task has been started and has
\* settled, and then every slot 0..N-1 of the returned array is filled.
C3_ResolvedMeansAllDone ==
  poolPc = "resolved" =>
    \A i \in TaskIdx : taskState[i] = "fulfilled" /\ results[i] # Empty

\* C4: the value task i resolves with is stored at output index i and at no
\* other index, whatever the completion order.
C4_OrderPreserved ==
  \A i \in TaskIdx :
    /\ taskState[i] = "fulfilled" => results[i] = TaskValue(i)
    /\ \A j \in TaskIdx : results[j] = TaskValue(i) => j = i

\* C4 witness: a later task has completed and been stored while an earlier
\* one is still running (completion order differs from input order).
C4_Witness ==
  \E i, j \in TaskIdx :
    /\ i < j
    /\ taskState[i] = "running"
    /\ taskState[j] = "fulfilled"
    /\ results[j] = TaskValue(j)

\* C5: a task's failure is never dropped: promisePool does not resolve
\* successfully at a moment when some task has already rejected (the results
\* array has no way to expose a failure: the slot of a rejected task is a hole).
C5_FailureNotDropped ==
  [][(poolPc # "resolved" /\ poolPc' = "resolved")
       => \A i \in TaskIdx : taskState[i] # "rejected"]_vars

\* C6: provided every started task settles, promisePool itself settles
\* (resolves or rejects), whatever tasks reject.
C6_PoolSettles == <>(poolPc \in {"resolved", "rejected"})

\* C6 witness: promisePool has settled although a task rejected.
C6_Witness ==
  /\ poolPc \in {"resolved", "rejected"}
  /\ \E i \in TaskIdx : taskState[i] = "rejected"

\* ---------------------------------------------- cacheWithRevalidation claims
HasRead(c) == calls[c].pc \notin {"idle", "get"}

Outstanding(c) == calls[c].bg \in {"fetching", "setting"}

\* The step in which call c's `await cache.get(key)` resumes.
ReadStep(c) == calls[c].pc = "get" /\ calls'[c].pc # "get"

StoredEntry(c) == Parse(storage[calls[c].key])

StoredStale(c) == now - StoredEntry(c).timestamp > calls[c].ttl

\* C1: per key, at most one background refresh is outstanding: while one is,
\* further stale-while-revalidate calls invoke no additional fetchFn.
C1_AtMostOneRefresh ==
  \A k \in Keys :
    Cardinality({c \in CallIds : calls[c].key = k /\ Outstanding(c)}) <= 1

\* C7: with the entry absent, or stale with staleWhileRevalidate false, the call
\* invokes fetchFn exactly once, awaits it, writes the fetched value under K and
\* returns {data: fetched, isStale: false}; if fetchFn rejects the call rejects
\* and the cache content is unchanged.
BlockingCase(c) ==
  /\ HasRead(c)
  /\ calls[c].cached = Null \/ (calls[c].isStale /\ ~calls[c].swr)

C7_State ==
  \A c \in CallIds : BlockingCase(c) =>
    LET me == calls[c]
    IN  /\ me.fetchCalls = 1
        /\ me.bg = "none"
        /\ me.pc \in {"fetch", "set", "returned", "rejected"}
        /\ me.pc \in {"fetch", "set", "rejected"} => me.ret = Null
        /\ me.pc = "returned" =>
             /\ me.data = FetchedData(c)
             /\ me.ret = [data |-> FetchedData(c), isStale |-> FALSE]
             /\ me.wrote = "ok"
        /\ me.pc = "rejected" => me.wrote = "none"

C7_Step ==
  \A c \in CallIds :
    /\ (ReadStep(c) /\ (storage[calls[c].key] = NoItem
                        \/ (StoredStale(c) /\ ~calls[c].swr)))
         => calls'[c].pc = "fetch" /\ calls'[c].fetchCalls = 1
    /\ (calls[c].pc = "set" /\ calls'[c].pc = "returned")
         => /\ storage'[calls[c].key] # NoItem
            /\ Parse(storage'[calls[c].key]).data = FetchedData(c)
    /\ (calls[c].pc # "rejected" /\ calls'[c].pc = "rejected")
         => calls[c].pc = "fetch" /\ storage' = storage

C7_BlockingBranches == [][C7_State' /\ C7_Step]_vars

\* C7 witness: both outcomes of a blocking call: one call returned the value it
\* fetched and the cache holds it, another call's fetch rejected.
C7_Witness ==
  \E c, d \in CallIds :
    /\ BlockingCase(c) /\ calls[c].pc = "returned"
    /\ storage[calls[c].key] # NoItem /\ StoredEntry(c).data = FetchedData(c)
    /\ BlockingCase(d) /\ calls[d].pc = "rejected"

\* C8: with the entry present and stale and staleWhileRevalidate true, the call
\* returns {data: cached data, isStale: true} before fetchFn settles; a call
\* that reads the cache returns the value stored at that moment, never the
\* data of a refresh that has not yet written.
SwrCase(c) ==
  /\ HasRead(c)
  /\ calls[c].cached # Null /\ calls[c].isStale /\ calls[c].swr

C8_State ==
  \A c \in CallIds : SwrCase(c) =>
    LET me == calls[c]
    IN  /\ me.pc = "returned"
        /\ me.ret = [data |-> me.cached.data, isStale |-> TRUE]
        /\ me.fetchCalls = 1
        /\ me.bg # "none"

C8_Step ==
  \A c \in CallIds :
    /\ (ReadStep(c) /\ storage[calls[c].key] # NoItem /\ StoredStale(c) /\ calls[c].swr)
         => /\ calls'[c].pc = "returned"
            /\ calls'[c].ret = [data |-> StoredEntry(c).data, isStale |-> TRUE]
            /\ calls'[c].bg = "fetching"
    /\ (ReadStep(c) /\ calls'[c].pc = "returned")
         => /\ calls'[c].ret.data = StoredEntry(c).data
            /\ \A d \in CallIds : calls[d].wrote = "none" =>
                 calls'[c].ret.data # FetchedData(d)

C8_StaleReturnedAtOnce == [][C8_State' /\ C8_Step]_vars

\* C8 witness: a call returned stale data while its own refresh is still
\* fetching, and a second call returned the same cached data meanwhile.
C8_Witness ==
  \E c, d \in CallIds :
    /\ c # d
    /\ SwrCase(c) /\ calls[c].bg = "fetching"
    /\ calls[d].key = calls[c].key
    /\ calls[d].pc = "returned" /\ calls[d].cached # Null
    /\ calls[d].readVersion = calls[c].readVersion
    /\ calls[d].ret.data = calls[c].ret.data

\* C9: when the background fetch rejects, no caller sees the rejection, the
\* cached entry is unchanged, and a later call for K (same options, no write in
\* between) still returns the old data as stale and starts a new refresh.
C9_State ==
  \A c \in CallIds : calls[c].bg = "failed" =>
    /\ calls[c].pc = "returned"
    /\ calls[c].ret = [data |-> calls[c].cached.data, isStale |-> TRUE]
    /\ calls[c].wrote = "none"
    /\ \A d \in CallIds :
         ( /\ c \in calls[d].afterFailed
           /\ HasRead(d)
           /\ calls[d].swr /\ calls[d].ttl <= calls[c].ttl
           /\ calls[d].readVersion = calls[c].readVersion )
         => /\ calls[d].pc = "returned"
            /\ calls[d].ret = [data |-> calls[c].cached.data, isStale |-> TRUE]
            /\ calls[d].fetchCalls = 1
            /\ calls[d].bg # "none"

C9_Step ==
  \A c \in CallIds :
    (calls[c].bg = "fetching" /\ calls'[c].bg = "failed")
      => /\ storage' = storage
         /\ \A d \in CallIds : /\ calls'[d].pc = calls[d].pc
                               /\ calls'[d].ret = calls[d].ret

C9_BackgroundFailureDiscarded == [][C9_State' /\ C9_Step]_vars

\* C9 witness: a background refresh failed and a call made afterwards got the
\* old data as stale and has its own refresh in flight.
C9_Witness ==
  \E c, d \in CallIds :
    /\ calls[c].bg = "failed"
    /\ c \in calls[d].afterFailed
    /\ calls[d].pc = "returned"
    /\ calls[d].ret = [data |-> calls[c].cached.data, isStale |-> TRUE]
    /\ calls[d].bg = "fetching"

\* C10: with the entry present and not stale (now - timestamp <= ttl) the call
\* returns {data: cached data, isStale: false}, never invokes fetchFn and never
\* writes the cache, whatever staleWhileRevalidate is.
FreshCase(c) ==
  /\ HasRead(c)
  /\ calls[c].cached # Null /\ ~calls[c].isStale

C10_State ==
  \A c \in CallIds : FreshCase(c) =>
    LET me == calls[c]
    IN  /\ me.pc = "returned"
        /\ me.ret = [data |-> me.cached.data, isStale |-> FALSE]
        /\ me.fetchCalls = 0
        /\ me.bg = "none"
        /\ me.wrote = "none"

C10_Step ==
  \A c \in CallIds :
    (ReadStep(c) /\ storage[calls[c].key] # NoItem
       /\ now - StoredEntry(c).timestamp <= calls[c].ttl)
      => /\ calls'[c].pc = "returned"
         /\ calls'[c].ret = [data |-> StoredEntry(c).data, isStale |-> FALSE]
         /\ calls'[c].fetchCalls = 0
         /\ calls'[c].bg = "none"
         /\ storage' = storage

C10_FreshHitNoFetch == [][C10_State' /\ C10_Step]_vars

\* C10 witness: fresh hits with staleWhileRevalidate true and false, one of
\* them exactly at the boundary now - timestamp = ttl with ttl > 0.
C10_Witness ==
  \E c, d \in CallIds :
    /\ FreshCase(c) /\ calls[c].swr
    /\ FreshCase(d) /\ ~calls[d].swr
    /\ calls[d].ttl > 0
    /\ now - calls[d].cached.timestamp = calls[d].ttl
    /\ calls[d].readVersion = writes[calls[d].key]

\* ------------------------------------------------ CacheService claims
\* C11: storage and parse failures never reach the caller. A direct get,
\* set, remove or clear never rejects, and a get whose read failed or whose
\* item is not JSON gives null; a cacheWithRevalidation call whose read
\* failed goes on as on a miss (it fetches), one whose write failed still
\* returns the fetched data, and a call rejects only at its awaited fetchFn.
C11_State ==
  /\ svc.outcome # "rejected"
  /\ (svc.op = "get" /\ ~svc.ok) => svc.result = Null
  /\ \A c \in CallIds :
       /\ calls[c].readFault # "none" =>
            /\ calls[c].cached = Null
            /\ calls[c].fetchCalls = 1
            /\ calls[c].pc \in {"fetch", "set", "returned", "rejected"}
            /\ calls[c].bg = "none"
       /\ (calls[c].wrote = "failed" /\ calls[c].bg = "none") =>
            /\ calls[c].pc = "returned"
            /\ calls[c].ret = [data |-> FetchedData(c), isStale |-> FALSE]

C11_Step ==
  \A c \in CallIds :
    (calls'[c].pc = "rejected" /\ calls[c].pc # "rejected") =>
      (calls[c].pc = "fetch" /\ storage' = storage)

C11_StorageFailuresContained == [][C11_State' /\ C11_Step]_vars

\* C11 witness: one call read an item that is not JSON, fetched, failed to
\* write and returned the fetched data, and a direct remove or clear failed.
C11_Witness ==
  /\ svc.op \in {"remove", "clear"}
  /\ ~svc.ok
  /\ \E c \in CallIds :
       /\ calls[c].readFault = "parse"
       /\ calls[c].wrote = "failed"
       /\ calls[c].pc = "returned"

\* C12: set/get round trip and staleness boundary. A get(K) that follows a
\* set(K, x) which completed without storage failure, with no other write to
\* K in between, returns an entry whose data is x and whose timestamp is the
\* time of the set (whatever K held before), and isStale(entry, t) on it is
\* true exactly when now - timestamp > t.
C12_GetAfterSet ==
  /\ svc'.seq = svc.seq + 1
  /\ svc'.op = "get"
  /\ svc'.ok
  /\ svc.op = "set"
  /\ svc.ok
  /\ svc'.key = svc.key
  /\ svc.version = writes[svc.key]

C12_Step ==
  C12_GetAfterSet =>
    /\ svc'.result # Null
    /\ svc'.result.data = svc.data
    /\ svc'.result.timestamp = svc.at
    /\ svc'.stale = (now - svc.at > svc'.ttl)

C13_Step ==
  \A k \in Keys :
    (writes'[k] # writes[k] /\ storage[k] # NoItem /\ storage'[k] # NoItem) =>
      Parse(storage'[k]).timestamp >= Parse(storage[k]).timestamp

C14_NoDuplicateItems == NoDuplicates(store.items)

\* The dedup-merge, in page order, of pages 0 .. n-1 of the backend.
RECURSIVE MergedPages(_)
MergedPages(n) ==
  IF n = 0 THEN <<>>
  ELSE IF n = 1 THEN PageOf(0)
  ELSE LET sofar == MergedPages(n - 1)
           isNew(x) == x \notin Range(sofar)
       IN  sofar \o SelectSeq(PageOf(n - 1), isNew)

\* C15: whenever no fetch is in flight and the last fetch succeeded, items is
\* the dedup-merge, in page order, of pages 0 .. page-1, no page skipped (a
\* loadMore response arriving after a refresh is not merged onto the refreshed
\* list with a page counter that skips pages).
C15_NoOutOfOrderMerge ==
  (InFlight = {} /\ lastOutcome = "fulfilled") => store.items = MergedPages(store.page)

\* C16: for one pagination instance at most one fetch (initial load, refresh
\* or loadMore) is outstanding at any instant.
C16_OneFetchInFlight == Cardinality(InFlight) <= 1

\* A step in which a fetch of the given kind is started.
Starts(kind) ==
  \E r \in ReqIds :
    reqs[r].state = "idle" /\ reqs'[r].state = "pending" /\ reqs'[r].kind = kind

\* C17: loadMore invokes the fetch function only when hasMore is true and no
\* load is in progress (so a second loadMore issued before the first settled
\* starts nothing, and loadMore with hasMore false starts nothing).
C17_Step == Starts("more") => (store.hasMore /\ InFlight = {})

C17_LoadMoreGuard == [][C17_Step]_vars

\* A step in which fetch r settles with the given outcome.
Settles(r, outcome) == reqs[r].state = "pending" /\ reqs'[r].state = outcome

\* C18: if the screen is torn down while a fetch is in flight, the later
\* completion of that fetch, success or failure, changes nothing of the
\* instance's state (items, page, hasMore, error, loading flags).
C18_Step ==
  \A r \in ReqIds :
    (mounted = "gone" /\ reqs[r].state = "pending" /\ reqs'[r].state # "pending") =>
      hook' = hook

C18_TeardownSafety == [][C18_Step]_vars

\* C19: on a successful loadMore the new items list is the old list followed
\* by exactly the incoming items whose identity is not in the old list, in
\* incoming order; a page of identities already present changes nothing.
C19_Step ==
  \A r \in ReqIds :
    (Settles(r, "fulfilled") /\ reqs[r].kind = "more") =>
      LET incoming == PageOf(reqs[r].page)
          fresh == {k \in DOMAIN incoming : incoming[k] \notin Range(store.items)}
      IN  /\ Len(store.items') = Len(store.items) + Cardinality(fresh)
          /\ SubSeq(store.items', 1, Len(store.items)) = store.items
          /\ \A k \in fresh :
               store.items'[Len(store.items)
                            + Cardinality({j \in fresh : j <= k})] = incoming[k]
          /\ Range(incoming) \subseteq Range(store.items) => store.items' = store.items

C19_AppendOnly == [][C19_Step]_vars

\* C19 witness: a loadMore has merged a page that overlaps the list: the id
\* already present was left out and the new one appended.
C19_Witness ==
  \E r \in ReqIds :
    /\ reqs[r].kind = "more"
    /\ reqs[r].state = "fulfilled"
    /\ reqs[r].page = 1
    /\ PageOf(0) = <<1, 2>>
    /\ PageOf(1) = <<2, 3>>
    /\ store.items = <<1, 2, 3>>

\* C20: when a pagination fetch fails, items, page and hasMore are what they
\* were before that fetch started, every loading flag is cleared and error
\* holds the failure reason; starting the next fetch clears the error.
C20_Step ==
  /\ \A r \in ReqIds :
       Settles(r, "rejected") =>
         /\ store.items' = reqs[r].before.items
         /\ store.page' = reqs[r].before.page
         /\ store.hasMore' = reqs[r].before.hasMore
         /\ ~store.loading'
         /\ ~store.isRefreshing'
         /\ ~store.isFetchingMore'
         /\ store.error' # NoError
  /\ (\E r \in ReqIds : reqs[r].state = "idle" /\ reqs'[r].state = "pending") =>
       store.error' = NoError

C20_FailureKeepsList == [][C20_Step]_vars

\* C21: the engine starts with items empty, page 0, hasMore true and no
\* loading flag set; a successful fetch of the first page (initial load or
\* refresh) sets items to exactly the fetched result, discarding all prior
\* items, sets page to 1 and clears every loading flag.
C21_Start ==
  Issued = 0 =>
    /\ hook.data = <<>>
    /\ hook.page = 0
    /\ hook.hasMore
    /\ ~hook.isLoading
    /\ ~hook.isRefreshing
    /\ ~hook.isLoadingRef

C21_Step ==
  \A r \in ReqIds :
    (Settles(r, "fulfilled") /\ reqs[r].kind \in {"initial", "refresh"}
       /\ mounted = "yes") =>
      /\ hook.data' = ResponseData(1)
      /\ hook.page' = 1
      /\ ~hook.isLoading'
      /\ ~hook.isRefreshing'
      /\ ~hook.isLoadingRef'

C21_FirstPageReplaces == [][C21_Start /\ C21_Step]_vars

\* A loadMore has merged a page shorter than the page size and no first-page
\* fetch has succeeded since.
ShortMerged ==
  \E r \in ReqIds :
    /\ reqs[r].kind = "more"
    /\ reqs[r].state = "fulfilled"
    /\ Len(PageOf(reqs[r].page)) < Limit
    /\ ~\E q \in ReqIds :
          /\ reqs[q].page = 0
          /\ reqs[q].state = "fulfilled"
          /\ reqs[q].doneAt > reqs[r].doneAt

\* C22: a successful loadMore sets page to one more than the page value at
\* the time loadMore was issued and sets hasMore from the fetch result (the
\* result has as many items as the page size); once a page shorter than the
\* page size has been merged, hasMore is false and loadMore issues no fetch
\* until a refresh succeeds.
C22_State == ShortMerged => ~store.hasMore

C22_Step ==
  /\ \A r \in ReqIds :
       (Settles(r, "fulfilled") /\ reqs[r].kind = "more") =>
         /\ store.page' = reqs[r].before.page + 1
         /\ store.hasMore' = (Len(PageOf(reqs[r].page)) = Limit)
  /\ Starts("more") => ~ShortMerged

C22_LoadMoreAdvances == [][C22_State' /\ C22_Step]_vars

\* C28: in usePagination, after any load settles, whether it succeeded or
\* failed, isLoadingRef, isLoading and isRefreshing are all false, so a
\* loadMore (with hasMore true) or a refresh requested then starts a fetch.
C28_GuardReleased ==
  (mounted = "yes" /\ InFlight = {}) =>
    /\ ~hook.isLoadingRef
    /\ ~hook.isLoading
    /\ ~hook.isRefreshing
    /\ Issued < MaxRequests =>
         /\ ENABLED HookRefresh
         /\ hook.hasMore => ENABLED HookLoadMore

\* C28 witness: a load failed and a load requested later was started.
C28_Witness ==
  \E r, q \in ReqIds :
    /\ r < q
    /\ reqs[r].state = "rejected"
    /\ reqs[q].state # "idle"
    /\ mounted = "yes"

\* ------------------------------------------------ promisePool, continued
\* C23: when the limit is greater than the number of tasks every task is
\* started without waiting for any other task (the run is that of starting
\* all tasks and awaiting them all: no race is awaited, it resolves with every
\* result once all have fulfilled and rejects once one has rejected); with an
\* empty task list promisePool returns an empty array waiting on no task.
C23_LimitAboveTasks ==
  (concurrency > nTasks /\ poolPc # "init") =>
    /\ poolPc \in {"all", "resolved", "rejected"}
    /\ \A i \in TaskIdx : started[i] = 1
    /\ poolPc = "resolved" =>
         \A i \in TaskIdx : taskState[i] = "fulfilled" /\ results[i] = TaskValue(i)
    /\ poolPc = "rejected" => \E i \in TaskIdx : taskState[i] = "rejected"
    /\ (poolPc = "all" /\ \A i \in TaskIdx : taskState[i] = "fulfilled") => awaited = "ok"
    /\ nTasks = 0 =>
         /\ poolPc = "all" => awaited = "ok"
         /\ poolPc # "rejected"
         /\ results = <<>>

\* C23 witness: with the limit above the number of tasks, all of several
\* tasks are running together while promisePool awaits them all.
C23_Witness ==
  /\ concurrency > nTasks
  /\ nTasks >= 2
  /\ poolPc = "all"
  /\ \A i \in TaskIdx : taskState[i] = "running"

\* C24: for every limit and completion order each task factory is invoked at
\* most once (a failed task is not retried), and exactly once for every task
\* whenever promisePool resolves.
C24_EachTaskOnce ==
  /\ \A i \in TaskIdx : started[i] <= 1
  /\ poolPc = "resolved" => \A i \in TaskIdx : started[i] = 1

\* C24 witness: promisePool has rejected after a task failed; the failed task
\* was invoked once and a later task not at all.
C24_Witness ==
  /\ poolPc = "rejected"
  /\ \E i, j \in TaskIdx :
       /\ taskState[i] = "rejected"
       /\ started[i] = 1
       /\ started[j] = 0

\* ---------------------------------------------------------- debounce claim
SetMax(S) == CHOOSE x \in S : \A y \in S : x >= y

\* positions in the trace of the debounced function
DebCalls == {k \in 1..Len(deb.log) : deb.log[k].kind = "call"}
DebExecs == {k \in 1..Len(deb.log) : deb.log[k].kind = "exec"}
\* the calls made before position k
CallsBefore(k) == {c \in DebCalls : c < k}

\* C25: func runs only when delay has passed since the most recent call, at
\* most once per burst of calls and with the arguments of the last call of
\* the burst; a call followed by another call within delay never makes func
\* run.
C25_QuietPeriod ==
  /\ \A k \in DebExecs :
       /\ CallsBefore(k) # {}
       /\ LET c == SetMax(CallsBefore(k))
          IN /\ deb.log[k].at - deb.log[c].at >= deb.delay
             /\ deb.log[k].arg = deb.log[c].arg
             /\ deb.log[k].by = deb.log[c].by
             /\ \A j \in (c + 1)..(k - 1) : deb.log[j].kind # "exec"
  /\ \A c \in DebCalls, d \in DebCalls :
       (c < d /\ deb.log[d].at - deb.log[c].at < deb.delay)
         => \A k \in DebExecs : deb.log[k].by # deb.log[c].by

\* a burst of two calls with different arguments closer than delay, then the
\* execution that ends the burst
C25_Witness ==
  \E c \in DebCalls, d \in DebCalls, k \in DebExecs :
    /\ c < d /\ d < k
    /\ CallsBefore(d) = CallsBefore(c) \cup {c}
    /\ deb.log[d].at - deb.log[c].at < deb.delay
    /\ deb.log[c].arg # deb.log[d].arg
    /\ deb.log[k].by = deb.log[d].by

\* ---------------------------------------------------------- throttle claim
\* positions in the trace of the throttled function
ThrCalls == {k \in 1..Len(thr.log) : thr.log[k].kind = "call"}
ThrExecs == {k \in 1..Len(thr.log) : thr.log[k].kind = "exec"}
\* the executions of func made by call c
ExecsOf(c) == {e \in ThrExecs : thr.log[e].by = thr.log[c].by}
ExecsBefore(k) == {e \in ThrExecs : e < k}

\* C26: the first call runs func at once, any two executions of func are at
\* least limit apart, and a call made less than limit after the last
\* execution runs nothing, then or later.
C26_RateLimit ==
  /\ \A c \in ThrCalls :
       (\A d \in ThrCalls : d >= c)
         => \E e \in ExecsOf(c) : thr.log[e].at = thr.log[c].at
  /\ \A j \in ThrExecs, k \in ThrExecs :
       j < k => thr.log[k].at - thr.log[j].at >= thr.limit
  /\ \A c \in ThrCalls :
       (/\ ExecsBefore(c) # {}
        /\ thr.log[c].at - thr.log[SetMax(ExecsBefore(c))].at < thr.limit)
         => ExecsOf(c) = {}

\* ------------------------------------------------------------- retry claim
\* C27: fn is invoked at most maxRetries + 1 times; the first successful
\* attempt ends the call with no further attempt; when all maxRetries + 1
\* attempts fail the call rejects with the error of the last one; after the
\* failed attempt k < maxRetries the wait is min(baseDelay * 2^k, maxDelay),
\* and there is no wait after the final failed attempt.
C27_BoundedRetry ==
  /\ rty.invoked <= rty.maxRetries + 1
  /\ rty.pc = "resolved"
       => /\ rty.succeeded = rty.invoked
          /\ rty.failed = [k \in 1..(rty.invoked - 1) |-> k - 1]
  /\ rty.pc = "rejected"
       => /\ rty.invoked = rty.maxRetries + 1
          /\ rty.failed = [k \in 1..(rty.maxRetries + 1) |-> k - 1]
          /\ rty.thrown = [attempt |-> rty.maxRetries]
  /\ Len(rty.waits) = Min2(Len(rty.failed), rty.maxRetries)
  /\ \A k \in 1..Len(rty.waits) :
       rty.waits[k] = Min2(rty.baseDelay * (2 ^ (k - 1)), rty.maxDelay)

\* every attempt failed, and the last wait was cut to maxDelay
C27_Witness ==
  /\ rty.pc = "rejected"
  /\ rty.maxRetries = 3
  /\ rty.waits = <<1000, 2000, 3000>>

\* --------------------------------------------------------------- cart claims
\* the lines of the cart slice holding product id
LinesOf(id) == {k \in 1..Len(cart.items) : cart.items[k].id = id}

RECURSIVE SumOver(_, _)
\* sum of f over the set S
SumOver(f, S) ==
  IF S = {} THEN 0
  ELSE LET x == CHOOSE y \in S : TRUE IN f[x] + SumOver(f, S \ {x})

\* C29: after any sequence of cart reducer actions totalItems is the sum of
\* the line quantities, totalPrice the sum of price times quantity, no two
\* lines hold the same product and every line has quantity >= 1.
C29_CartInvariant ==
  LET lines == 1..Len(cart.items)
  IN /\ cart.totalItems = SumOver([k \in lines |-> cart.items[k].quantity], lines)
     /\ cart.totalPrice =
          SumOver([k \in lines |-> Price(cart.items[k].id) * cart.items[k].quantity], lines)
     /\ \A id \in ProductIds : Cardinality(LinesOf(id)) <= 1
     /\ \A k \in lines : cart.items[k].quantity >= 1

\* two lines, one of them with a quantity above 1
C29_Witness ==
  /\ Len(cart.items) = 2
  /\ cart.totalItems = 3
  /\ cart.totalPrice = Price(cart.items[1].id) * cart.items[1].quantity
                         + Price(cart.items[2].id) * cart.items[2].quantity

\* the execute calls made and the ones that returned
Executed == {c \in Adders : useCases.calls[c].pc # "idle"}
Returned == {c \in Adders : useCases.calls[c].pc = "done"}

\* C30: once all the execute calls made for a product have returned, the
\* stored cart has exactly one line for it and its quantity has grown by the
\* number of calls.
C30_NoLostUpdate ==
  (Executed # {} /\ Executed = Returned)
    => LET items == GetCartItems
       IN /\ Cardinality({k \in 1..Len(items) : items[k].id = AddedProduct}) = 1
          /\ StoredQuantity(cartItem, AddedProduct)
               = useCases.base + Cardinality(Executed)

====
